---- MODULE Spec2Model ----
(***************************************************************************)
(* A model of the primitive registry of LispX (interpreter/functions.go):  *)
(* the behaviour functions of the built-in operators, the environment      *)
(* chain they mutate, the output accumulator, and the argument evaluation  *)
(* policies (Mod) under which the evaluator calls them.                    *)
(*                                                                         *)
(* Text (Go string) is a sequence of text pieces; a literal of the source  *)
(* is one piece and Go's + on strings is \o.  A Number (Go float64) is an  *)
(* exact fraction [n, d] in lowest terms with d > 0; the rounding and the   *)
(* signed zero of float64 are outside the model.                           *)
(***************************************************************************)
EXTENDS Integers, Sequences, FiniteSets

VARIABLES
    envs,             \* the Environments: envs[i] = [CurSymbols, Parent], Parent 0 is nil
    varsEnvironment,  \* ir.varsEnvironment: the current (innermost) Environment
    stdout,           \* ir.stdout: the output accumulator
    pc,               \* position of the call in progress
    op,               \* name of the primitive called last
    args,             \* its resolved argument list
    result,           \* the value it returned
    curEnv,           \* set!'s scan cursor (local curEnv)
    form,             \* evaluator: the argument expressions of the application under evaluation
    prepared,         \* evaluator: the argument list prepared so far under the policy
    evaluated         \* evaluator: the expressions evaluated so far, in order

irVars   == <<envs, varsEnvironment, stdout>>
callVars == <<pc, op, args, result, curEnv>>
evalVars == <<form, prepared, evaluated>>
vars     == <<envs, varsEnvironment, stdout, pc, op, args, result, curEnv,
              form, prepared, evaluated>>

----------------------------------------------------------------------------
(* Bounds of the model *)

MaxDepth == 3       \* environments between current and root, inclusive
MaxArgs == 3        \* arguments of an arithmetic or comparison call
MaxOutArgs == 2     \* arguments of a call in the output model
MaxOutLen == 2      \* display is called while stdout holds fewer text pieces than this
MaxForm == 3        \* argument expressions of an evaluated application

----------------------------------------------------------------------------
(* Expr: the tagged value.  Every Expr carries the Go struct's fields Type, *)
(* Number and String; a field a constructor does not set holds Go's zero    *)
(* value.                                                                   *)

Abs(i) == IF i < 0 THEN -i ELSE i

RECURSIVE Gcd(_, _)
Gcd(a, b) == IF b = 0 THEN a ELSE Gcd(b, a % b)

Frac(n, d) ==
    LET s == IF d < 0 THEN -1 ELSE 1
        g == Gcd(Abs(n), Abs(d))
    IN  [n |-> (s * n) \div g, d |-> (s * d) \div g]

Zero == Frac(0, 1)

FAdd(a, b) == Frac(a.n * b.d + b.n * a.d, a.d * b.d)
FSub(a, b) == Frac(a.n * b.d - b.n * a.d, a.d * b.d)
FMul(a, b) == Frac(a.n * b.n, a.d * b.d)
FDiv(a, b) == Frac(a.n * b.d, a.d * b.n)
FNeg(a)    == Frac(-a.n, a.d)
FLess(a, b) == a.n * b.d < b.n * a.d

NewNil         == [Type |-> "Nil",    Number |-> Zero, String |-> <<>>]
NewT           == [Type |-> "T",      Number |-> Zero, String |-> <<>>]
NewNumber(f)   == [Type |-> "Number", Number |-> f,    String |-> <<>>]
NewString(s)   == [Type |-> "String", Number |-> Zero, String |-> s]
NewSymbol(s)   == [Type |-> "Symbol", Number |-> Zero, String |-> s]
newError(msg)  == [Type |-> "Error",  Number |-> Zero, String |-> msg]
Cons(a, b)     == [Type |-> "Pair",   Number |-> Zero, String |-> <<>>,
                   Car |-> a, Cdr |-> b]

IsNil(e) == e.Type = "Nil"

Num(i) == NewNumber(Frac(i, 1))

----------------------------------------------------------------------------
(* Environment *)

NilEnv == 0

IR == [envs |-> envs, varsEnvironment |-> varsEnvironment, stdout |-> stdout]

Bound(ir, e, s) == s \in DOMAIN ir.envs[e].CurSymbols

\* m[s] = v on a Go map
MapSet(m, s, v) == [k \in (DOMAIN m) \cup {s} |-> IF k = s THEN v ELSE m[k]]

Assign(ir, e, s, v) ==
    [ir EXCEPT !.envs[e].CurSymbols = MapSet(ir.envs[e].CurSymbols, s, v)]

Ret(v, ir) == [ret |-> v, ir |-> ir]

----------------------------------------------------------------------------
(* define *)

fn_define_nearest(ir, a) ==
    IF Len(a) # 2 THEN Ret(newError(<<"define: must be 2 arguments">>), ir)
    ELSE IF a[1].Type # "Symbol"
    THEN Ret(newError(<<"define: second argument is not symbol">>), ir)
    ELSE LET holders == {e \in 1..ir.varsEnvironment : Bound(ir, e, a[1].String)}
             target == IF holders = {} THEN ir.varsEnvironment
                       ELSE CHOOSE e \in holders : \A f \in holders : f <= e
         IN  Ret(a[2], Assign(ir, target, a[1].String, a[2]))

fn_define(ir, a) ==
    IF Len(a) # 2 THEN Ret(newError(<<"define: must be 2 arguments">>), ir)
    ELSE IF a[1].Type # "Symbol"
    THEN Ret(newError(<<"define: second argument is not symbol">>), ir)
    ELSE Ret(a[2], Assign(ir, ir.varsEnvironment, a[1].String, a[2]))

----------------------------------------------------------------------------
(* Arithmetic and comparison.  A range loop over args is a recursion on    *)
(* the index i with the accumulator res.                                   *)

RECURSIVE plusLoop(_, _, _, _)
plusLoop(ir, a, i, res) ==
    IF i > Len(a) THEN NewNumber(res)
    ELSE IF a[i].Type # "Number" THEN newError(<<"+: expected numbers">>)
    ELSE plusLoop(ir, a, i + 1, FAdd(res, a[i].Number))

fn_plus(ir, a) == Ret(plusLoop(ir, a, 1, Zero), ir)

RECURSIVE minusLoop(_, _, _, _)
minusLoop(ir, a, i, res) ==
    IF i > Len(a) THEN NewNumber(res)
    ELSE IF a[i].Type # "Number" THEN newError(<<"-: expected numbers">>)
    ELSE minusLoop(ir, a, i + 1,
                   IF i = 1 THEN a[i].Number ELSE FSub(res, a[i].Number))

fn_minus(ir, a) ==
    IF Len(a) = 0 THEN Ret(NewNumber(Zero), ir)
    ELSE IF Len(a) = 1
    THEN IF a[1].Type # "Number" THEN Ret(newError(<<"-: expected numbers">>), ir)
         ELSE Ret(NewNumber(FNeg(a[1].Number)), ir)
    ELSE Ret(minusLoop(ir, a, 1, Zero), ir)

RECURSIVE timesLoop(_, _, _, _)
timesLoop(ir, a, i, res) ==
    IF i > Len(a) THEN NewNumber(res)
    ELSE IF a[i].Type # "Number" THEN newError(<<"*: expected numbers">>)
    ELSE timesLoop(ir, a, i + 1, FMul(res, a[i].Number))

fn_times(ir, a) == Ret(timesLoop(ir, a, 1, Frac(1, 1)), ir)

\* the loop over args[1:]: i starts at the second argument
RECURSIVE divLoop(_, _, _, _)
divLoop(ir, a, i, res) ==
    IF i > Len(a) THEN NewNumber(res)
    ELSE IF a[i].Type # "Number" THEN newError(<<"/: expected numbers">>)
    ELSE IF a[i].Number = Zero THEN newError(<<"/: zero division">>)
    ELSE divLoop(ir, a, i + 1, FDiv(res, a[i].Number))

fn_div(ir, a) ==
    IF Len(a) = 0 THEN Ret(newError(<<"/: expected at least one expression">>), ir)
    ELSE Ret(divLoop(ir, a, 2, a[1].Number), ir)

\* %d of an int
RECURSIVE Digits(_)
Digits(i) ==
    LET d == <<"0", "1", "2", "3", "4", "5", "6", "7", "8", "9">>
    IN  IF i < 10 THEN <<d[i + 1]>> ELSE Digits(i \div 10) \o <<d[(i % 10) + 1]>>

AllNumbers(a) == \A i \in 1..Len(a) : a[i].Type = "Number"

fn_gt(ir, a) ==
    IF Len(a) # 2 /\ Len(a) # 3
    THEN Ret(newError(<<">: expected 2 expressions, got ">> \o Digits(Len(a))), ir)
    ELSE IF ~AllNumbers(a) THEN Ret(newError(<<">: expected numbers">>), ir)
    ELSE IF FLess(a[2].Number, a[1].Number) THEN Ret(NewT, ir)
    ELSE Ret(NewNil, ir)

fn_lt(ir, a) ==
    IF Len(a) # 2 /\ Len(a) # 3
    THEN Ret(newError(<<"<: expected 2 expressions, got ">> \o Digits(Len(a))), ir)
    ELSE IF ~AllNumbers(a) THEN Ret(newError(<<"<: expected numbers">>), ir)
    ELSE IF FLess(a[1].Number, a[2].Number) THEN Ret(NewT, ir)
    ELSE Ret(NewNil, ir)

----------------------------------------------------------------------------
(* display *)

RECURSIVE Pad(_, _)
Pad(w, ds) == IF Len(ds) >= w THEN ds ELSE Pad(w, <<"0">> \o ds)

Million == 1000000

\* fmt.Sprintf("%f", f): six digits after the point, round half to even
SprintfF(f) ==
    LET m == Abs(f.n) * Million
        q == m \div f.d
        r == m % f.d
        u == IF 2 * r > f.d \/ (2 * r = f.d /\ q % 2 = 1) THEN q + 1 ELSE q
    IN  (IF f.n < 0 THEN <<"-">> ELSE <<>>)
        \o Digits(u \div Million) \o <<".">> \o Pad(6, Digits(u % Million))

\* Expr.ToString: a Pair is a parenthesized list, any other value its text
RECURSIVE ToString(_)
ToString(e) ==
    LET RECURSIVE Items(_)
        Items(l) == IF l.Type # "Pair" THEN <<>>
                    ELSE ToString(l.Car)
                         \o (IF l.Cdr.Type = "Pair" THEN <<" ">> ELSE <<>>)
                         \o Items(l.Cdr)
    IN  CASE e.Type = "Pair" -> <<"(">> \o Items(e) \o <<")">>
          [] e.Type = "Number" -> SprintfF(e.Number)
          [] e.Type = "T" -> <<"T">>
          [] e.Type = "Nil" -> <<"nil">>
          [] OTHER -> e.String

\* the text display appends for arg: the switch on arg.Type
displayText(arg) ==
    CASE arg.Type \in {"Symbol", "String"} -> arg.String
      [] arg.Type = "Number" -> SprintfF(arg.Number)
      [] arg.Type = "T" -> <<"T">>
      [] arg.Type = "Nil" -> <<"nil">>
      [] OTHER -> ToString(arg)

fn_display_overwrite(ir, a) ==
    IF Len(a) # 1 THEN Ret(newError(<<"display: expected one expression">>), ir)
    ELSE Ret(a[1], [ir EXCEPT !.stdout = displayText(a[1])])

fn_display(ir, a) ==
    IF Len(a) # 1 THEN Ret(newError(<<"display: expected one expression">>), ir)
    ELSE Ret(a[1], [ir EXCEPT !.stdout = ir.stdout \o displayText(a[1])])

----------------------------------------------------------------------------
(* or, and, if, begin *)

RECURSIVE orLoop(_, _)
orLoop(a, i) ==
    IF i > Len(a) THEN NewNil
    ELSE IF ~IsNil(a[i]) THEN a[i]
    ELSE orLoop(a, i + 1)

fn_or_first(ir, a) == Ret(IF Len(a) = 0 THEN NewNil ELSE a[1], ir)

fn_or(ir, a) == Ret(orLoop(a, 1), ir)

fn_and_nil(ir, a) ==
    IF Len(a) = 0 THEN Ret(NewT, ir)
    ELSE IF \E i \in 1..Len(a) : IsNil(a[i]) THEN Ret(NewNil, ir)
    ELSE Ret(a[Len(a)], ir)

fn_and(ir, a) ==
    IF Len(a) = 0 THEN Ret(NewT, ir)
    ELSE Ret(a[Len(a)], ir)

fn_if_swapped(ir, a) ==
    IF Len(a) # 2 /\ Len(a) # 3
    THEN Ret(newError(<<"if: expected 2 or 3 expressions, got ">> \o Digits(Len(a))), ir)
    ELSE IF IsNil(a[1]) THEN Ret(a[2], ir)
    ELSE IF Len(a) = 2 THEN Ret(NewNil, ir)
    ELSE Ret(a[3], ir)

fn_if(ir, a) ==
    IF Len(a) # 2 /\ Len(a) # 3
    THEN Ret(newError(<<"if: expected 2 or 3 expressions, got ">> \o Digits(Len(a))), ir)
    ELSE IF ~IsNil(a[1]) THEN Ret(a[2], ir)
    ELSE IF Len(a) = 2 THEN Ret(NewNil, ir)
    ELSE Ret(a[3], ir)

fn_begin(ir, a) ==
    IF Len(a) = 0 THEN Ret(NewNil, ir)
    ELSE Ret(a[Len(a)], ir)

----------------------------------------------------------------------------
(* The remaining primitives *)

\* Expr.ToList: the one-element list of e
ToList(e) == Cons(e, NewNil)

\* Expr.Car, Expr.Cdr: the slots of a Pair, an Error on any other value
Car(e) == IF e.Type = "Pair" THEN e.Car ELSE newError(<<"car: not a pair">>)
Cdr(e) == IF e.Type = "Pair" THEN e.Cdr ELSE newError(<<"cdr: not a pair">>)

\* Expr.Equal: structural equality
Equal(a, b) == a = b

NewClosure(params, body, env) ==
    [Type |-> "Closure", Number |-> Zero, String |-> <<>>,
     Params |-> params, Body |-> body, Env |-> env]

\* lexer.NewLexer(s).NextToken(): a numeric token for the text of a natural
\* number, no numeric token for any other text
NextTokenIsNumber(s) == \E i \in 0..99 : Digits(i) = s
NextTokenNumber(s) == Frac(CHOOSE i \in 0..99 : Digits(i) = s, 1)

\* strconv.FormatFloat(f, 'f', -1, 64): the shortest decimal text of f
RECURSIVE FracDigits(_, _, _)
FracDigits(r, d, fuel) ==
    IF r = 0 \/ fuel = 0 THEN <<>>
    ELSE Digits((r * 10) \div d) \o FracDigits((r * 10) % d, d, fuel - 1)

FormatFloat(f) ==
    LET m == Abs(f.n)
    IN  (IF f.n < 0 THEN <<"-">> ELSE <<>>) \o Digits(m \div f.d)
        \o (IF m % f.d = 0 THEN <<>> ELSE <<".">> \o FracDigits(m % f.d, f.d, 17))

fn_eval(ir, a) ==
    IF Len(a) # 1
    THEN Ret(Cons(NewSymbol(<<"begin">>),
                  ToList(newError(<<"quote: must be 1 argument">>))), ir)
    ELSE Ret(Cons(NewSymbol(<<"begin">>), ToList(a[1])), ir)

fn_quote(ir, a) ==
    IF Len(a) # 1 THEN Ret(newError(<<"quote: must be 1 argument">>), ir)
    ELSE Ret(a[1], ir)

fn_car(ir, a) ==
    IF Len(a) # 1 THEN Ret(newError(<<"car: must be 1 argument">>), ir)
    ELSE Ret(Car(a[1]), ir)

fn_cdr(ir, a) ==
    IF Len(a) # 1 THEN Ret(newError(<<"cdr: must be 1 argument">>), ir)
    ELSE Ret(Cdr(a[1]), ir)

fn_cons(ir, a) ==
    IF Len(a) # 2 THEN Ret(newError(<<"cons: must be 2 arguments">>), ir)
    ELSE Ret(Cons(a[1], a[2]), ir)

fn_lambda(ir, a) ==
    IF Len(a) < 2 THEN Ret(newError(<<"define: must be at less 2 arguments">>), ir)
    ELSE Ret(NewClosure(a[1], SubSeq(a, 2, Len(a)), ir.varsEnvironment), ir)

fn_eq(ir, a) ==
    IF Len(a) < 2
    THEN Ret(newError(<<"=: expected at less 2 expressions, got ">> \o Digits(Len(a))), ir)
    ELSE IF \E i \in 2..Len(a) : ~Equal(a[1], a[i]) THEN Ret(NewNil, ir)
    ELSE Ret(NewT, ir)

fn_not(ir, a) ==
    IF Len(a) # 1 THEN Ret(newError(<<"not: must be 1 argument">>), ir)
    ELSE IF IsNil(a[1]) THEN Ret(NewT, ir)
    ELSE Ret(NewNil, ir)

fn_atomP(ir, a) ==
    IF Len(a) # 1 THEN Ret(newError(<<"atom?: must be 1 argument">>), ir)
    ELSE IF a[1].Type = "Pair" THEN Ret(NewNil, ir)
    ELSE Ret(NewT, ir)

fn_listP(ir, a) ==
    IF Len(a) # 1 THEN Ret(newError(<<"list?: must be 1 argument">>), ir)
    ELSE IF a[1].Type = "Pair" \/ IsNil(a[1]) THEN Ret(NewT, ir)
    ELSE Ret(NewNil, ir)

fn_numberP(ir, a) ==
    IF Len(a) # 1 THEN Ret(newError(<<"number?: must be 1 argument">>), ir)
    ELSE IF a[1].Type = "Number" THEN Ret(NewT, ir)
    ELSE Ret(NewNil, ir)

fn_stringP(ir, a) ==
    IF Len(a) # 1 THEN Ret(newError(<<"string?: must be 1 argument">>), ir)
    ELSE IF a[1].Type = "String" THEN Ret(NewT, ir)
    ELSE Ret(NewNil, ir)

fn_symbolP(ir, a) ==
    IF Len(a) # 1 THEN Ret(newError(<<"symbol?: must be 1 argument">>), ir)
    ELSE IF a[1].Type = "Symbol" THEN Ret(NewT, ir)
    ELSE Ret(NewNil, ir)

fn_stringToSymbol(ir, a) ==
    IF Len(a) # 1 THEN Ret(newError(<<"string->symbol: must be 1 argument">>), ir)
    ELSE IF a[1].Type # "String"
    THEN Ret(newError(<<"string->symbol: must be a string">>), ir)
    ELSE Ret(NewSymbol(a[1].String), ir)

fn_symbolToString(ir, a) ==
    IF Len(a) # 1 THEN Ret(newError(<<"symbol->string: must be 1 argument">>), ir)
    ELSE IF a[1].Type # "Symbol"
    THEN Ret(newError(<<"symbol->string: must be a symbol">>), ir)
    ELSE Ret(NewString(a[1].String), ir)

fn_stringToNumber(ir, a) ==
    IF Len(a) # 1 THEN Ret(newError(<<"string->number: must be 1 argument">>), ir)
    ELSE IF a[1].Type # "String"
    THEN Ret(newError(<<"string->number: must be a string">>), ir)
    ELSE IF ~NextTokenIsNumber(a[1].String)
    THEN Ret(newError(<<"string->number: incorrect string">>), ir)
    ELSE Ret(NewNumber(NextTokenNumber(a[1].String)), ir)

fn_numberToString(ir, a) ==
    IF Len(a) # 1 THEN Ret(newError(<<"number->string: must be 1 argument">>), ir)
    ELSE IF a[1].Type # "Number"
    THEN Ret(newError(<<"number->string: must be a number">>), ir)
    ELSE Ret(NewString(FormatFloat(a[1].Number)), ir)

----------------------------------------------------------------------------
(* Inputs of the environment model *)

x == <<"x">>
y == <<"y">>
SymbolNames == {x, y}
EnvValues == {Num(1), Num(2)}

EnvArgs ==
    {<<NewSymbol(s), v>> : s \in SymbolNames, v \in EnvValues}
    \cup {<<>>, <<NewSymbol(x)>>, <<Num(1), Num(2)>>,
          <<NewSymbol(x), Num(1), Num(2)>>}

EmptySymbols == [k \in {} |-> NewNil]

----------------------------------------------------------------------------
(* Calls.  A call that runs to its return in one step records its name,    *)
(* its arguments and the value returned, and installs the state it left;   *)
(* the caller then takes the value.                                        *)

Return(name, a, r) ==
    /\ op' = name
    /\ args' = a
    /\ result' = r.ret
    /\ envs' = r.ir.envs
    /\ varsEnvironment' = r.ir.varsEnvironment
    /\ stdout' = r.ir.stdout
    /\ pc' = "returned"
    /\ curEnv' = NilEnv

\* The caller takes the returned value and goes on to its next call
Continue ==
    /\ pc = "returned"
    /\ pc' = "idle"
    /\ op' = "none"
    /\ args' = <<>>
    /\ result' = NewNil
    /\ UNCHANGED <<envs, varsEnvironment, stdout, curEnv>>
    /\ UNCHANGED evalVars

\* The step in which the primitive called name returns
Returns(name) == pc # "returned" /\ pc' = "returned" /\ op' = name

Define(A) ==
    /\ pc = "idle"
    /\ \E a \in A : Return("define", a, fn_define(IR, a))
    /\ UNCHANGED evalVars

\* set!: the arity and type checks, then curEnv := ir.varsEnvironment
SetBang(A) ==
    /\ pc = "idle"
    /\ \E a \in A :
         IF Len(a) # 2
         THEN Return("set!", a, Ret(newError(<<"set!: must be 2 arguments">>), IR))
         ELSE IF a[1].Type # "Symbol"
         THEN Return("set!", a,
                     Ret(newError(<<"set!: second argument is not symbol">>), IR))
         ELSE /\ op' = "set!"
              /\ args' = a
              /\ pc' = "setLoop"
              /\ curEnv' = varsEnvironment
              /\ UNCHANGED <<result, envs, varsEnvironment, stdout>>
    /\ UNCHANGED evalVars

\* set!: the loop test and the loop body up to its return; the return after the loop
SetLoop ==
    /\ pc = "setLoop"
    /\ IF curEnv = NilEnv
       THEN Return("set!", args,
                   Ret(newError(<<"set!: symbol '">> \o args[1].String
                                 \o <<"' is not defined">>), IR))
       ELSE IF Bound(IR, curEnv, args[1].String)
       THEN Return("set!", args,
                   Ret(args[2], Assign(IR, curEnv, args[1].String, args[2])))
       ELSE /\ pc' = "setAdvance"
            /\ UNCHANGED <<op, args, result, curEnv, envs, varsEnvironment, stdout>>
    /\ UNCHANGED evalVars

\* set!: the last statement of the loop body
SetAdvance ==
    /\ pc = "setAdvance"
    /\ curEnv' = envs[varsEnvironment].Parent
    /\ pc' = "setLoop"
    /\ UNCHANGED <<op, args, result, envs, varsEnvironment, stdout>>
    /\ UNCHANGED evalVars

\* Applying a closure creates one child Environment of the current one
PushScope ==
    /\ pc = "idle"
    /\ Len(envs) < MaxDepth
    /\ envs' = Append(envs, [CurSymbols |-> EmptySymbols, Parent |-> varsEnvironment])
    /\ varsEnvironment' = Len(envs) + 1
    /\ UNCHANGED <<stdout, pc, op, args, result, curEnv>>
    /\ UNCHANGED evalVars

\* Returning from the application makes the parent current again
PopScope ==
    /\ pc = "idle"
    /\ envs[varsEnvironment].Parent # NilEnv
    /\ varsEnvironment' = envs[varsEnvironment].Parent
    /\ envs' = SubSeq(envs, 1, Len(envs) - 1)
    /\ UNCHANGED <<stdout, pc, op, args, result, curEnv>>
    /\ UNCHANGED evalVars

\* lookup: walk from e to the root, first binding found
RECURSIVE lookup(_, _, _)
lookup(ir, e, s) ==
    IF e = NilEnv THEN newError(<<"UnboundSymbol">>)
    ELSE IF Bound(ir, e, s) THEN ir.envs[e].CurSymbols[s]
    ELSE lookup(ir, ir.envs[e].Parent, s)

Init ==
    /\ envs = <<[CurSymbols |-> EmptySymbols, Parent |-> NilEnv]>>
    /\ varsEnvironment = 1
    /\ stdout = <<>>
    /\ pc = "idle"
    /\ op = "none"
    /\ args = <<>>
    /\ result = NewNil
    /\ curEnv = NilEnv
    /\ form = <<>>
    /\ prepared = <<>>
    /\ evaluated = <<>>

----------------------------------------------------------------------------
(* The environment model: define and set! under a growing and shrinking    *)
(* scope chain.                                                            *)

NextEnv ==
    \/ Continue
    \/ PushScope
    \/ PopScope
    \/ Define(EnvArgs)
    \/ SetBang(EnvArgs)
    \/ SetLoop
    \/ SetAdvance

SpecEnv == Init /\ [][NextEnv]_vars

\* A call, once made, keeps executing
LiveSpecEnv == SpecEnv /\ WF_vars(SetLoop) /\ WF_vars(SetAdvance)

\* The environments from e to the root
RECURSIVE Chain(_)
Chain(e) == IF e = NilEnv THEN {} ELSE {e} \cup Chain(envs[e].Parent)

BoundInChain(s) == \E e \in Chain(varsEnvironment) : s \in DOMAIN envs[e].CurSymbols

\* The nearest environment, from e toward the root, that binds s
RECURSIVE Nearest(_, _)
Nearest(e, s) ==
    IF e = NilEnv THEN NilEnv
    ELSE IF s \in DOMAIN envs[e].CurSymbols THEN e
    ELSE Nearest(envs[e].Parent, s)

WellFormed(a) == Len(a) = 2 /\ a[1].Type = "Symbol"

SetScanning == pc \in {"setLoop", "setAdvance"}

\* The symbol and the value of the set! call in progress or returned last
SetSym == IF Len(args) >= 1 THEN args[1].String ELSE <<>>
SetVal == IF Len(args) >= 2 THEN args[2] ELSE NewNil

\* C1: a well-formed set! of a symbol bound somewhere in the chain returns,
\* returns v, and its return overwrites the binding in the nearest
\* environment that binds the symbol and changes nothing else.
C1_SetAssignsNearest ==
    /\ [][(SetScanning /\ pc' = "returned" /\ BoundInChain(SetSym))
            => /\ result' = SetVal
               /\ envs' = Assign(IR, Nearest(varsEnvironment, SetSym),
                                 SetSym, SetVal).envs
               /\ varsEnvironment' = varsEnvironment
               /\ stdout' = stdout]_vars
    /\ [](SetScanning /\ BoundInChain(SetSym)
            => <>(pc = "returned" /\ op = "set!" /\ result = SetVal))

\* C2: a set! of a symbol bound nowhere in the chain returns an Error and
\* changes no binding, whatever the depth of the chain.
C2_SetUnboundIsError ==
    /\ [][(SetScanning /\ ~BoundInChain(SetSym))
            => (envs' = envs /\ varsEnvironment' = varsEnvironment)]_vars
    /\ [](SetScanning /\ ~BoundInChain(SetSym)
            => <>(pc = "returned" /\ op = "set!" /\ result.Type = "Error"))

\* C3: every call of set! eventually returns.
C3_SetTerminates == [](SetScanning => <>(pc = "returned"))

\* C4: a well-formed define binds s -> v in the current environment only and
\* returns v; every other binding, every ancestor and a lookup of s from the
\* parent are as before.
C4_DefineCurrentOnly ==
    [][(Returns("define") /\ WellFormed(args'))
         => LET s == args'[1].String
                cur == varsEnvironment
                old == envs[cur].CurSymbols
                new == envs'[cur].CurSymbols
            IN  /\ result' = args'[2]
                /\ varsEnvironment' = cur
                /\ DOMAIN envs' = DOMAIN envs
                /\ \A e \in DOMAIN envs : e # cur => envs'[e] = envs[e]
                /\ envs'[cur].Parent = envs[cur].Parent
                /\ DOMAIN new = (DOMAIN old) \cup {s}
                /\ new[s] = args'[2]
                /\ \A k \in (DOMAIN old) \ {s} : new[k] = old[k]
                /\ stdout' = stdout
                /\ lookup([IR EXCEPT !.envs = envs'], envs[cur].Parent, s)
                     = lookup(IR, envs[cur].Parent, s)]_vars

\* C4's case: define in a child scope shadows a different binding of an ancestor
C4_Witness ==
    /\ pc = "returned"
    /\ op = "define"
    /\ WellFormed(args)
    /\ varsEnvironment >= 2
    /\ x \in DOMAIN envs[varsEnvironment].CurSymbols
    /\ args[1].String = x
    /\ envs[varsEnvironment].CurSymbols[x] = args[2]
    /\ result = args[2]
    /\ x \in DOMAIN envs[1].CurSymbols
    /\ envs[1].CurSymbols[x] # args[2]

----------------------------------------------------------------------------
(* The arithmetic model: the arithmetic and comparison primitives called   *)
(* on every argument list of up to MaxArgs values.                         *)

ArithVals ==
    {NewNil, NewT, Num(0), Num(1), Num(2), NewString(<<"a">>), NewSymbol(x),
     newError(<<"e">>), Cons(Num(1), NewNil)}

\* The lists of up to n elements of S
RECURSIVE Lists(_, _)
Lists(S, n) ==
    IF n = 0 THEN {<<>>}
    ELSE LET shorter == Lists(S, n - 1)
         IN  shorter \cup {Append(l, v) : l \in {m \in shorter : Len(m) = n - 1}, v \in S}

ArithArgs == Lists(ArithVals, MaxArgs)

Plus(A) ==
    /\ pc = "idle"
    /\ \E a \in A : Return("+", a, fn_plus(IR, a))
    /\ UNCHANGED evalVars

Minus(A) ==
    /\ pc = "idle"
    /\ \E a \in A : Return("-", a, fn_minus(IR, a))
    /\ UNCHANGED evalVars

Times(A) ==
    /\ pc = "idle"
    /\ \E a \in A : Return("*", a, fn_times(IR, a))
    /\ UNCHANGED evalVars

Div(A) ==
    /\ pc = "idle"
    /\ \E a \in A : Return("/", a, fn_div(IR, a))
    /\ UNCHANGED evalVars

Gt(A) ==
    /\ pc = "idle"
    /\ \E a \in A : Return(">", a, fn_gt(IR, a))
    /\ UNCHANGED evalVars

Lt(A) ==
    /\ pc = "idle"
    /\ \E a \in A : Return("<", a, fn_lt(IR, a))
    /\ UNCHANGED evalVars

NextArith ==
    \/ Continue
    \/ Plus(ArithArgs)
    \/ Minus(ArithArgs)
    \/ Times(ArithArgs)
    \/ Div(ArithArgs)
    \/ Gt(ArithArgs)
    \/ Lt(ArithArgs)

SpecArith == Init /\ [][NextArith]_vars

\* C5: an arithmetic or comparison primitive given a non-Number argument at
\* any position, the first included, returns an Error.
C5_NonNumberIsError ==
    (/\ pc = "returned"
     /\ op \in {"+", "-", "*", "/", "<", ">"}
     /\ \E i \in 1..Len(args) : args[i].Type # "Number")
    => result.Type = "Error"

\* C9: < and > return an Error for any argument count other than 2, and for
\* 2 Numbers return T when the strict comparison holds and Nil otherwise.
C9_ComparisonArity ==
    (pc = "returned" /\ op \in {"<", ">"})
    => /\ Len(args) # 2 => result.Type = "Error"
       /\ (Len(args) = 2 /\ AllNumbers(args))
            => result = IF (IF op = "<" THEN FLess(args[1].Number, args[2].Number)
                            ELSE FLess(args[2].Number, args[1].Number))
                        THEN NewT ELSE NewNil

----------------------------------------------------------------------------
(* The output model: every primitive called in any order, display among    *)
(* them, on a root environment.                                            *)

DisplayVals ==
    {NewNil, NewT, NewNumber(Frac(-3, 2)), NewString(<<"a">>), NewSymbol(x),
     Cons(Num(1), NewNil)}

DisplayArgs == Lists(DisplayVals, MaxOutArgs)

OutVals == {NewNil, Num(1), NewSymbol(x), NewString(<<"1">>)}

OutArgs == Lists(OutVals, MaxOutArgs)

Display(A) ==
    /\ pc = "idle"
    /\ Len(stdout) < MaxOutLen
    /\ \E a \in A : Return("display", a, fn_display(IR, a))
    /\ UNCHANGED evalVars

EvalCall(A) ==
    /\ pc = "idle"
    /\ \E a \in A : Return("eval", a, fn_eval(IR, a))
    /\ UNCHANGED evalVars

Quote(A) ==
    /\ pc = "idle"
    /\ \E a \in A : Return("quote", a, fn_quote(IR, a))
    /\ UNCHANGED evalVars

CarCall(A) ==
    /\ pc = "idle"
    /\ \E a \in A : Return("car", a, fn_car(IR, a))
    /\ UNCHANGED evalVars

CdrCall(A) ==
    /\ pc = "idle"
    /\ \E a \in A : Return("cdr", a, fn_cdr(IR, a))
    /\ UNCHANGED evalVars

ConsCall(A) ==
    /\ pc = "idle"
    /\ \E a \in A : Return("cons", a, fn_cons(IR, a))
    /\ UNCHANGED evalVars

Lambda(A) ==
    /\ pc = "idle"
    /\ \E a \in A : Return("lambda", a, fn_lambda(IR, a))
    /\ UNCHANGED evalVars

Begin(A) ==
    /\ pc = "idle"
    /\ \E a \in A : Return("begin", a, fn_begin(IR, a))
    /\ UNCHANGED evalVars

Or(A) ==
    /\ pc = "idle"
    /\ \E a \in A : Return("or", a, fn_or(IR, a))
    /\ UNCHANGED evalVars

And(A) ==
    /\ pc = "idle"
    /\ \E a \in A : Return("and", a, fn_and(IR, a))
    /\ UNCHANGED evalVars

If(A) ==
    /\ pc = "idle"
    /\ \E a \in A : Return("if", a, fn_if(IR, a))
    /\ UNCHANGED evalVars

Eq(A) ==
    /\ pc = "idle"
    /\ \E a \in A : Return("=", a, fn_eq(IR, a))
    /\ UNCHANGED evalVars

Not(A) ==
    /\ pc = "idle"
    /\ \E a \in A : Return("not", a, fn_not(IR, a))
    /\ UNCHANGED evalVars

AtomP(A) ==
    /\ pc = "idle"
    /\ \E a \in A : Return("atom?", a, fn_atomP(IR, a))
    /\ UNCHANGED evalVars

ListP(A) ==
    /\ pc = "idle"
    /\ \E a \in A : Return("list?", a, fn_listP(IR, a))
    /\ UNCHANGED evalVars

NumberP(A) ==
    /\ pc = "idle"
    /\ \E a \in A : Return("number?", a, fn_numberP(IR, a))
    /\ UNCHANGED evalVars

StringP(A) ==
    /\ pc = "idle"
    /\ \E a \in A : Return("string?", a, fn_stringP(IR, a))
    /\ UNCHANGED evalVars

SymbolP(A) ==
    /\ pc = "idle"
    /\ \E a \in A : Return("symbol?", a, fn_symbolP(IR, a))
    /\ UNCHANGED evalVars

StringToSymbol(A) ==
    /\ pc = "idle"
    /\ \E a \in A : Return("string->symbol", a, fn_stringToSymbol(IR, a))
    /\ UNCHANGED evalVars

SymbolToString(A) ==
    /\ pc = "idle"
    /\ \E a \in A : Return("symbol->string", a, fn_symbolToString(IR, a))
    /\ UNCHANGED evalVars

StringToNumber(A) ==
    /\ pc = "idle"
    /\ \E a \in A : Return("string->number", a, fn_stringToNumber(IR, a))
    /\ UNCHANGED evalVars

NumberToString(A) ==
    /\ pc = "idle"
    /\ \E a \in A : Return("number->string", a, fn_numberToString(IR, a))
    /\ UNCHANGED evalVars

NextOut ==
    \/ Continue
    \/ Display(DisplayArgs)
    \/ Define(OutArgs)
    \/ SetBang(OutArgs)
    \/ SetLoop
    \/ SetAdvance
    \/ Plus(OutArgs)
    \/ Minus(OutArgs)
    \/ Times(OutArgs)
    \/ Div(OutArgs)
    \/ Gt(OutArgs)
    \/ Lt(OutArgs)
    \/ EvalCall(OutArgs)
    \/ Quote(OutArgs)
    \/ CarCall(OutArgs)
    \/ CdrCall(OutArgs)
    \/ ConsCall(OutArgs)
    \/ Lambda(OutArgs)
    \/ Begin(OutArgs)
    \/ Or(OutArgs)
    \/ And(OutArgs)
    \/ If(OutArgs)
    \/ Eq(OutArgs)
    \/ Not(OutArgs)
    \/ AtomP(OutArgs)
    \/ ListP(OutArgs)
    \/ NumberP(OutArgs)
    \/ StringP(OutArgs)
    \/ SymbolP(OutArgs)
    \/ StringToSymbol(OutArgs)
    \/ SymbolToString(OutArgs)
    \/ StringToNumber(OutArgs)
    \/ NumberToString(OutArgs)

SpecOut == Init /\ [][NextOut]_vars

IsPrefix(p, q) == Len(p) <= Len(q) /\ SubSeq(q, 1, Len(p)) = p

\* C10: stdout only grows, by a prefix-preserving append; only a display call
\* with exactly one argument extends it, by the text of that argument, and
\* returns the argument; a display call with any other argument count
\* returns an Error and leaves stdout as it was.
C10_StdoutAppendOnly ==
    [][/\ IsPrefix(stdout, stdout')
       /\ stdout' # stdout => (Returns("display") /\ Len(args') = 1)
       /\ (Returns("display") /\ Len(args') = 1)
            => (stdout' = stdout \o displayText(args'[1]) /\ result' = args'[1])
       /\ (Returns("display") /\ Len(args') # 1)
            => (stdout' = stdout /\ result'.Type = "Error")]_vars

\* C10's case: a second display has extended a non-empty stdout with the
\* fixed-point text of a Number and returned the Number
C10_Witness ==
    /\ pc = "returned"
    /\ op = "display"
    /\ Len(args) = 1
    /\ args[1] = NewNumber(Frac(-3, 2))
    /\ result = args[1]
    /\ stdout = <<"a", "-", "1", ".", "5", "0", "0", "0", "0", "0">>

----------------------------------------------------------------------------
(* The evaluator model: one application of or, and or if to unevaluated    *)
(* argument expressions, its arguments prepared under the operator's Mod   *)
(* and its behaviour function then invoked.                                *)

\* The Mod each registry entry declares ("nil": none, every argument evaluated)
ModType(name) ==
    CASE name = "or" -> "ModOr"
      [] name = "and" -> "ModAnd"
      [] name = "if" -> "ModIf"
      [] name \in {"quote", "define", "set!", "lambda"} -> "ModExec"
      [] OTHER -> "nil"

\* Mod.Exec: the argument positions a ModExec entry has evaluated
ModExec(name) == IF name \in {"define", "set!"} THEN {2} ELSE {}

\* The registry entries that run to their return in one step
Apply(name, ir, a) ==
    CASE name = "display" -> fn_display(ir, a)
      [] name = "define" -> fn_define(ir, a)
      [] name = "quote" -> fn_quote(ir, a)
      [] name = "car" -> fn_car(ir, a)
      [] name = "cons" -> fn_cons(ir, a)
      [] name = "+" -> fn_plus(ir, a)
      [] name = "/" -> fn_div(ir, a)
      [] OTHER -> Ret(newError(<<"UnboundSymbol">>), ir)

\* The registry key of an operator symbol: its text, a single piece
NameOf(sym) == sym.String[1]

\* The elements of a list: a chain of Pairs ended by Nil
RECURSIVE ListItems(_)
ListItems(l) == IF l.Type # "Pair" THEN <<>> ELSE <<l.Car>> \o ListItems(l.Cdr)

\* evaluate(expr, env): a Symbol is looked up, a Pair is an application whose
\* arguments are prepared left to right, any other value evaluates to itself
RECURSIVE evaluate(_, _)
RECURSIVE evalArgs(_, _, _, _, _)
evaluate(ir, e) ==
    CASE e.Type = "Symbol" -> Ret(lookup(ir, ir.varsEnvironment, e.String), ir)
      [] e.Type = "Pair" ->
           LET p == evalArgs(ir, NameOf(e.Car), ListItems(e.Cdr), 1, <<>>)
           IN  Apply(NameOf(e.Car), p.ir, p.ret)
      [] OTHER -> Ret(e, ir)

evalArgs(ir, name, raw, i, acc) ==
    IF i > Len(raw) THEN Ret(acc, ir)
    ELSE IF ModType(name) = "nil" \/ i \in ModExec(name)
    THEN LET r == evaluate(ir, raw[i])
         IN  evalArgs(r.ir, name, raw, i + 1, Append(acc, r.ret))
    ELSE evalArgs(ir, name, raw, i + 1, Append(acc, raw[i]))

Install(ir) ==
    /\ envs' = ir.envs
    /\ varsEnvironment' = ir.varsEnvironment
    /\ stdout' = ir.stdout

\* ModOr: arguments are evaluated left to right up to the first that is not Nil
PrepareOr ==
    /\ pc = "prepare"
    /\ ModType(op) = "ModOr"
    /\ Len(prepared) < Len(form)
    /\ IF Len(prepared) = 0 THEN TRUE ELSE IsNil(prepared[Len(prepared)])
    /\ LET r == evaluate(IR, form[Len(prepared) + 1])
       IN  /\ prepared' = Append(prepared, r.ret)
           /\ evaluated' = Append(evaluated, form[Len(prepared) + 1])
           /\ Install(r.ir)
    /\ UNCHANGED <<pc, op, args, result, curEnv, form>>

\* ModAnd: every argument is evaluated, left to right
PrepareAnd ==
    /\ pc = "prepare"
    /\ ModType(op) = "ModAnd"
    /\ Len(prepared) < Len(form)
    /\ LET r == evaluate(IR, form[Len(prepared) + 1])
       IN  /\ prepared' = Append(prepared, r.ret)
           /\ evaluated' = Append(evaluated, form[Len(prepared) + 1])
           /\ Install(r.ir)
    /\ UNCHANGED <<pc, op, args, result, curEnv, form>>

\* ModIf: the first argument is evaluated, the others are passed as they are
PrepareIf ==
    /\ pc = "prepare"
    /\ ModType(op) = "ModIf"
    /\ Len(prepared) = 0
    /\ Len(form) > 0
    /\ LET r == evaluate(IR, form[1])
       IN  /\ prepared' = <<r.ret>> \o SubSeq(form, 2, Len(form))
           /\ evaluated' = Append(evaluated, form[1])
           /\ Install(r.ir)
    /\ UNCHANGED <<pc, op, args, result, curEnv, form>>

Prepared ==
    CASE ModType(op) = "ModOr" ->
           IF Len(prepared) = Len(form) THEN TRUE
           ELSE IF Len(prepared) = 0 THEN FALSE
           ELSE ~IsNil(prepared[Len(prepared)])
      [] ModType(op) = "ModAnd" -> Len(prepared) = Len(form)
      [] ModType(op) = "ModIf" -> Len(prepared) = Len(form)
      [] OTHER -> FALSE

Behaviour(name, ir, a) ==
    CASE name = "or" -> fn_or(ir, a)
      [] name = "and" -> fn_and(ir, a)
      [] name = "if" -> fn_if(ir, a)

\* The behaviour function is called on the prepared arguments; what if hands
\* back goes to the trampoline
Invoke ==
    /\ pc = "prepare"
    /\ Prepared
    /\ LET r == Behaviour(op, IR, prepared)
       IN  /\ args' = prepared
           /\ result' = r.ret
           /\ Install(r.ir)
    /\ pc' = IF ModType(op) = "ModIf" THEN "trampoline" ELSE "returned"
    /\ UNCHANGED <<op, curEnv, form, prepared, evaluated>>

\* The expression handed back is evaluated in the same frame
Trampoline ==
    /\ pc = "trampoline"
    /\ LET r == evaluate(IR, result)
       IN  /\ result' = r.ret
           /\ evaluated' = Append(evaluated, result)
           /\ Install(r.ir)
    /\ pc' = "returned"
    /\ UNCHANGED <<op, args, curEnv, form, prepared>>

App1(name, a) == Cons(NewSymbol(name), Cons(a, NewNil))
App2(name, a, b) == Cons(NewSymbol(name), Cons(a, Cons(b, NewNil)))

\* Argument expressions: values, a symbol unbound until defined, and
\* applications with an effect on stdout or on the environment
ArgExprs ==
    {NewNil, NewT, Num(1), NewSymbol(x),
     App1(<<"display">>, NewString(<<"a">>)),
     App2(<<"define">>, NewSymbol(x), Num(2))}

InitEval ==
    /\ envs = <<[CurSymbols |-> EmptySymbols, Parent |-> NilEnv]>>
    /\ varsEnvironment = 1
    /\ stdout = <<>>
    /\ pc = "prepare"
    /\ op \in {"or", "and", "if"}
    /\ args = <<>>
    /\ result = NewNil
    /\ curEnv = NilEnv
    /\ form \in Lists(ArgExprs, MaxForm)
    /\ prepared = <<>>
    /\ evaluated = <<>>

NextEval ==
    \/ PrepareOr
    \/ PrepareAnd
    \/ PrepareIf
    \/ Invoke
    \/ Trampoline

SpecEval == InitEval /\ [][NextEval]_vars

\* The interpreter state every evaluation starts from
IR0 == [envs |-> <<[CurSymbols |-> EmptySymbols, Parent |-> NilEnv]>>,
        varsEnvironment |-> 1, stdout |-> <<>>]

\* Evaluating the expressions es one after the other from ir: the values
\* and the state left
RECURSIVE Replay(_, _, _)
Replay(ir, es, acc) ==
    IF es = <<>> THEN Ret(acc, ir)
    ELSE LET r == evaluate(ir, Head(es))
         IN  Replay(r.ir, Tail(es), Append(acc, r.ret))

Done(name) == pc = "returned" /\ op = name

\* C6: (and) yields T; otherwise and evaluates all its arguments left to
\* right, whatever their values, and yields the value of the last.
C6_AndEvaluatesAll ==
    Done("and")
    => LET all == Replay(IR0, form, <<>>)
       IN  /\ evaluated = form
           /\ args = all.ret
           /\ IR = all.ir
           /\ result = IF Len(form) = 0 THEN NewT ELSE all.ret[Len(form)]

\* C6's case: (and 1 Nil (display "a")) has evaluated all three arguments
\* past the Nil of the second and returned the value of the third
C6_Witness ==
    /\ Done("and")
    /\ form = <<Num(1), NewNil, App1(<<"display">>, NewString(<<"a">>))>>
    /\ evaluated = form
    /\ stdout = <<"a">>
    /\ result = NewString(<<"a">>)

\* C7: or evaluates its arguments left to right, yields the first value
\* that is not Nil and evaluates nothing after it; with no such value, or
\* no argument, it yields Nil.
C7_OrStopsAtFirstNonNil ==
    Done("or")
    => LET k == Len(evaluated)
           part == Replay(IR0, SubSeq(form, 1, k), <<>>)
       IN  /\ k <= Len(form)
           /\ evaluated = SubSeq(form, 1, k)
           /\ args = part.ret
           /\ IR = part.ir
           /\ \A i \in 1..(k - 1) : IsNil(args[i])
           /\ k < Len(form) => ~IsNil(args[k])
           /\ result = IF k > 0 /\ ~IsNil(args[k]) THEN args[k] ELSE NewNil

\* C7's case: (or Nil 1 (display "a")) has returned 1 and printed nothing
C7_Witness ==
    /\ Done("or")
    /\ form = <<NewNil, Num(1), App1(<<"display">>, NewString(<<"a">>))>>
    /\ evaluated = <<NewNil, Num(1)>>
    /\ result = Num(1)
    /\ stdout = <<>>

====
